---- MODULE Spec2Model ----
(***************************************************************************)
(* Token issuance, rotation and revocation of the authentication core      *)
(* (app/routers/auth.py, app/core/security.py, app/core/deps.py,           *)
(* app/models/token.py), and the guarded upload to object storage          *)
(* (app/main.py).                                                          *)
(*                                                                         *)
(* Time is counted in ticks, TicksPerSec ticks to the second.  A JWT time  *)
(* claim is a whole number of seconds (the codec truncates a datetime to   *)
(* seconds), a Refresh Record's expires_at keeps the full resolution.  A   *)
(* handler reads the clock several times; the clock may advance between    *)
(* two reads.                                                              *)
(* A token string is determined by its claims: HS256 over a fixed header   *)
(* and the claims is deterministic, so two tokens with the same claims are *)
(* the same string.  Timestamps are modelled as instants on one time line: *)
(* the representation of a datetime (its tzinfo) in the store is not       *)
(* modelled.                                                               *)
(*                                                                         *)
(* Request handlers run concurrently, one per worker; a handler is split   *)
(* into steps at its database commits.  resp is the response emitted by    *)
(* the step that led to the current state (NoResp when that step answered  *)
(* nothing).                                                               *)
(***************************************************************************)
EXTENDS Integers, Sequences, FiniteSets, TLC

\* ---------------------------------------------------------------- bounds
MaxRecords == 3       \* Refresh Records the ledger may hold
MaxTicks == 2         \* single clock steps in a behaviour
MaxJumps == 1         \* long waits (a whole TTL) in a behaviour
MaxDrift == 1         \* ticks the clock may advance inside one handler step
TicksPerSec == 1      \* clock resolution: ticks to the second
MaxObjects == 2       \* objects the bucket may hold
MaxIdentities == 2    \* ids given to Identities whose tokens are in use

Workers == {1, 2}
Emails == {"alice@example.com", "bob@example.com"}   \* emails that log in
Registrants == {"alice@example.com"}                   \* emails that register
Passwords == {"password123", "wrongpassword"}

\* Uploaded files: a filename (a string, as the sequence of its parts) and bytes.
Files ==
    {[filename |-> <<"greeting", ".txt">>, body |-> "hello fastapi"],
     [filename |-> <<"greeting", ".txt">>, body |-> "Goodbye"],
     [filename |-> <<"a">>, body |-> ""]}

\* What the object store does with a request: the calls of upload_file that fail.
S3Outcomes == {"ok", "no_credentials", "bucket_error", "upload_error", "presign_error"}

\* ------------------------------------------------------------- settings
ACCESS_TOKEN_EXPIRE_SECONDS == 900
REFRESH_TOKEN_EXPIRE_SECONDS == 2592000

VARIABLES
    users,           \* Identity table: set of [id, email, password_hash]
    refresh_tokens,  \* Refresh Record table: sequence, a record's id is its index
    now,             \* the wall clock, in ticks
    ticks,           \* single clock steps taken so far
    jumps,           \* long waits taken so far
    pc,              \* pc[w]: the step worker w's handler is at
    loc,             \* loc[w]: the handler's local variables
    resp,            \* the response emitted by the last step
    grants,          \* history: token pairs returned so far, with the call that returned them
    lineage,         \* history: <<old record id, new record id>> of every rotation insert
    logged_out,      \* history: refresh tokens whose record a logout has revoked
    used,            \* history: refresh tokens a refresh call has accepted
    blobs            \* the bucket: set of [key, body], one object per key

vars == <<users, refresh_tokens, now, ticks, jumps, pc, loc, resp,
          grants, lineage, logged_out, used, blobs>>

\* ------------------------------------------------------------ time
Sec(t) == t \div TicksPerSec

Min(a, b) == IF a <= b THEN a ELSE b

\* The clock reads of one handler step: n reads, each not earlier than the one
\* before, the clock advancing by at most drift ticks while the step runs.
ReadSeqs(n, drift) ==
    LET hi == now + Min(drift, MaxTicks - ticks)
    IN  {s \in [1..n -> now..hi] : \A i \in 1..(n - 1) : s[i] <= s[i + 1]}

\* ------------------------------------------------------------ credential hasher
hash_password(password) == <<"bcrypt", password>>

verify_password(plain_password, hashed_password) ==
    hashed_password = <<"bcrypt", plain_password>>

\* ------------------------------------------------------------ token codec
NoToken == [sub |-> 0, exp |-> 0, iat |-> 0, type |-> "none", signed |-> FALSE]

\* A string that is no JWT ("invalid.token.here").
Garbage == [sub |-> 0, exp |-> 0, iat |-> 0, type |-> "garbage", signed |-> FALSE]

\* r_exp, r_iat: the two clock reads, taken in this order.
create_access_token(user_id, r_exp, r_iat) ==
    [sub |-> user_id,
     exp |-> Sec(r_exp) + ACCESS_TOKEN_EXPIRE_SECONDS,
     iat |-> Sec(r_iat),
     type |-> "access",
     signed |-> TRUE]

\* A refresh token whose exp is rounded up to the next whole second.
create_refresh_token_RoundedUp(user_id, r_exp, r_iat) ==
    [sub |-> user_id,
     exp |-> Sec(r_exp) + 1 + REFRESH_TOKEN_EXPIRE_SECONDS,
     iat |-> Sec(r_iat),
     type |-> "refresh",
     signed |-> TRUE]

create_refresh_token(user_id, r_exp, r_iat) ==
    [sub |-> user_id,
     exp |-> Sec(r_exp) + REFRESH_TOKEN_EXPIRE_SECONDS,
     iat |-> Sec(r_iat),
     type |-> "refresh",
     signed |-> TRUE]

\* "invalid" (jwt.InvalidTokenError), "expired" (jwt.ExpiredSignatureError) or "ok"
\* (the claims are the token's fields); r is the clock read of the exp check.
decode_token(token, r) ==
    IF ~token.signed THEN "invalid"
    ELSE IF token.exp * TicksPerSec <= r THEN "expired"
    ELSE "ok"

\* The claims jwt.decode returns for a token it accepts.
decode_payload(token) ==
    [sub |-> token.sub, exp |-> token.exp, iat |-> token.iat, type |-> token.type]

hash_refresh_token(token) == <<"sha256", token>>

\* ------------------------------------------------------------ ledger
RefreshToken(user_id, token_hash, expires_at, revoked) ==
    [user_id |-> user_id, token_hash |-> token_hash,
     expires_at |-> expires_at, revoked |-> revoked]

\* db.query(RefreshToken).filter(token_hash == h).first(): the record's id, 0 for None.
find_by_hash(h) ==
    IF \E i \in 1..Len(refresh_tokens) : refresh_tokens[i].token_hash = h
    THEN CHOOSE i \in 1..Len(refresh_tokens) : refresh_tokens[i].token_hash = h
    ELSE 0

\* ------------------------------------------------------------ responses
NoPair == [access_token |-> NoToken, refresh_token |-> NoToken,
           token_type |-> "none", expires_in |-> 0]

\* A pair whose expires_in is reported in minutes.
TokenPair_Minutes(access_token, refresh_token, token_type, expires_in) ==
    [access_token |-> access_token, refresh_token |-> refresh_token,
     token_type |-> token_type, expires_in |-> expires_in \div 60]

TokenPair(access_token, refresh_token, token_type, expires_in) ==
    [access_token |-> access_token, refresh_token |-> refresh_token,
     token_type |-> token_type, expires_in |-> expires_in]

NoUser == [id |-> 0, email |-> "none", password_hash |-> <<"none", "none">>]

NoHeaders == "none"
WWWAuthenticate == "WWW-Authenticate: Bearer"

\* No file, and the empty body of a response that is no UploadResponse.
NoFile == [filename |-> <<>>, body |-> "none"]

NoUpload == [filename |-> <<>>, key |-> <<>>, url |-> <<>>, status |-> "none"]

UploadResponse(filename, key, url, status) ==
    [filename |-> filename, key |-> key, url |-> url, status |-> status]

\* What was true of a call's input when the call began (for the properties; the
\* handlers do not read it).
NoCtx == [existed |-> FALSE, after_rotate |-> FALSE, after_logout |-> FALSE,
          first_use |-> FALSE, of_rotation |-> FALSE, unexpired |-> FALSE,
          signed |-> FALSE, type |-> "none", sub |-> 0, recorded |-> FALSE,
          revoked |-> FALSE, of_login |-> FALSE, valid |-> FALSE,
          lapsed |-> FALSE, file |-> NoFile, pair_revoked |-> FALSE]

\* A response: the HTTP part (status, detail, headers, pair, user) and, for the
\* properties, the call it answers (op), the branch that raised it (cause) and the
\* call's context (ctx).
Response(op, status, detail, headers) ==
    [op |-> op, status |-> status, detail |-> detail, headers |-> headers,
     pair |-> NoPair, user |-> NoUser, upload |-> NoUpload, cause |-> "none",
     ctx |-> NoCtx]

NoResp == Response("none", 0, "none", NoHeaders)

NoLoc == [email |-> "none", password |-> "none", token |-> NoToken, id |-> 0,
          access |-> NoToken, refresh |-> NoToken, ctx |-> NoCtx]

\* ------------------------------------------------------------ history
RotatedTokens == {g.old : g \in {x \in grants : x.op = "refresh"}}

\* The context of a call that presents token (refresh, logout, the guard) and
\* reads the clock at r first.
RefreshCtx(token, r) ==
    [NoCtx EXCEPT
        !.after_rotate = token \in RotatedTokens,
        !.after_logout = token \in logged_out,
        !.first_use = token \notin used,
        !.of_rotation = \E g \in grants : g.op = "refresh" /\ g.pair.refresh_token = token,
        !.unexpired = token.exp * TicksPerSec > r,
        !.signed = token.signed,
        !.type = token.type,
        !.sub = token.sub,
        !.recorded = \E i \in 1..Len(refresh_tokens) :
                        refresh_tokens[i].token_hash = <<"sha256", token>>,
        !.revoked = \E i \in 1..Len(refresh_tokens) :
                        /\ refresh_tokens[i].token_hash = <<"sha256", token>>
                        /\ refresh_tokens[i].revoked,
        !.of_login = \E g \in grants : g.op = "login" /\ token \in
                        {g.pair.access_token, g.pair.refresh_token},
        !.lapsed = \E i \in 1..Len(refresh_tokens) :
                        /\ refresh_tokens[i].token_hash = <<"sha256", token>>
                        /\ refresh_tokens[i].expires_at < r,
        !.pair_revoked = \E g \in grants : \E i \in 1..Len(refresh_tokens) :
                        /\ g.pair.access_token = token
                        /\ refresh_tokens[i].token_hash =
                               <<"sha256", g.pair.refresh_token>>
                        /\ refresh_tokens[i].revoked]

\* The context of a login call: is the email registered, and with this password.
LoginCtx(email, password) ==
    [NoCtx EXCEPT
        !.existed = \E u \in users : u.email = email,
        !.valid = \E u \in users : u.email = email /\ u.password_hash[2] = password,
        !.sub = IF \E u \in users : u.email = email
                THEN (CHOOSE u \in users : u.email = email).id ELSE 0]

\* Every token string a client has been given, and the string that is no token.
Presentable ==
    {g.pair.access_token : g \in grants} \cup {g.pair.refresh_token : g \in grants}
        \cup {Garbage}

\* Handlers that have still to insert a Refresh Record.
Inserting == {w \in Workers : pc[w] \in {"refresh_revoke", "refresh_insert"}}

\* The ledger has room for the record of token_hash, or the insert will be refused
\* and needs none (bounds the ledger; no part of the program).
Room(token_hash) ==
    \/ \E i \in 1..Len(refresh_tokens) : refresh_tokens[i].token_hash = token_hash
    \/ Len(refresh_tokens) + Cardinality(Inserting) < MaxRecords

\* A request is served by the first free worker (workers are interchangeable).
Free(w) ==
    /\ resp = NoResp
    /\ pc[w] = "idle"
    /\ \A v \in Workers : (v < w) => pc[v] # "idle"

Init ==
    /\ users = {}
    /\ refresh_tokens = <<>>
    /\ now = 0
    /\ ticks = 0
    /\ jumps = 0
    /\ pc = [w \in Workers |-> "idle"]
    /\ loc = [w \in Workers |-> NoLoc]
    /\ resp = NoResp
    /\ grants = {}
    /\ lineage = {}
    /\ logged_out = {}
    /\ used = {}
    /\ blobs = {}

\* ------------------------------------------------------------ the clock
Tick ==
    /\ resp = NoResp
    /\ ticks + jumps < MaxTicks
    /\ now' = now + 1
    /\ ticks' = ticks + 1
    /\ resp' = NoResp
    /\ UNCHANGED <<users, refresh_tokens, jumps, pc, loc, grants, lineage, logged_out, used>>
    /\ UNCHANGED blobs

\* A wait of a whole access or refresh TTL; like a tick it counts as one of the
\* MaxTicks waits of a behaviour.
Jump(seconds) ==
    /\ resp = NoResp
    /\ jumps < MaxJumps
    /\ ticks + jumps < MaxTicks
    /\ now' = now + seconds * TicksPerSec
    /\ jumps' = jumps + 1
    /\ resp' = NoResp
    /\ UNCHANGED <<users, refresh_tokens, ticks, pc, loc, grants, lineage, logged_out, used>>
    /\ UNCHANGED blobs

\* The clock after a handler step whose last read was r.
Advance(r) ==
    /\ now' = r
    /\ ticks' = ticks + (r - now)
    /\ UNCHANGED jumps

\* ------------------------------------------------------------ identities
\* The id of a new Identity (a UUID): an id that no Identity has and that no token
\* issued so far names.
NewId ==
    LET taken == {0} \cup {u.id : u \in users}
                     \cup {g.pair.access_token.sub : g \in grants}
    IN  1 + (CHOOSE x \in taken : \A y \in taken : y <= x)

\* ------------------------------------------------------------ register
User(id, email, password_hash) ==
    [id |-> id, email |-> email, password_hash |-> password_hash]

\* db.query(User).filter(User.email == email).first(), NoUser for None.
user_by_email(email) ==
    IF \E u \in users : u.email = email
    THEN CHOOSE u \in users : u.email = email
    ELSE NoUser

user_by_id(id) ==
    IF \E u \in users : u.id = id
    THEN CHOOSE u \in users : u.id = id
    ELSE NoUser

\* A register that skips the existence check and goes straight to the insert.
RegisterCheck_Unchecked(w, email, password) ==
    /\ Free(w)
    /\ pc' = [pc EXCEPT ![w] = "register_insert"]
    /\ loc' = [loc EXCEPT ![w] = [NoLoc EXCEPT !.email = email, !.password = password,
                      !.ctx = [NoCtx EXCEPT !.existed = \E u \in users : u.email = email]]]
    /\ resp' = NoResp
    /\ UNCHANGED <<users, refresh_tokens, now, ticks, jumps, grants, lineage, logged_out, used>>
    /\ UNCHANGED blobs

\* The existence check: 409 for a registered email, else on to the insert.
RegisterCheck(w, email, password) ==
    /\ Free(w)
    /\ LET ctx == [NoCtx EXCEPT !.existed = \E u \in users : u.email = email]
       IN  IF user_by_email(email) # NoUser
           THEN /\ resp' = [Response("register", 409, "Email already registered",
                                     NoHeaders) EXCEPT !.ctx = ctx]
                /\ UNCHANGED <<pc, loc>>
           ELSE /\ pc' = [pc EXCEPT ![w] = "register_insert"]
                /\ loc' = [loc EXCEPT ![w] = [NoLoc EXCEPT !.email = email,
                                                  !.password = password, !.ctx = ctx]]
                /\ resp' = NoResp
    /\ UNCHANGED <<users, refresh_tokens, now, ticks, jumps, grants, lineage, logged_out, used>>
    /\ UNCHANGED blobs

\* An insert into a users table without the unique index on email.
RegisterInsert_NoConstraint(w) ==
    /\ resp = NoResp
    /\ pc[w] = "register_insert"
    /\ LET new_user == User(NewId, loc[w].email,
                            hash_password(loc[w].password))
       IN  /\ users' = users \cup {new_user}
           /\ resp' = [Response("register", 201, "none", NoHeaders)
                           EXCEPT !.user = new_user, !.ctx = loc[w].ctx]
    /\ pc' = [pc EXCEPT ![w] = "idle"]
    /\ loc' = [loc EXCEPT ![w] = NoLoc]
    /\ UNCHANGED <<refresh_tokens, now, ticks, jumps, grants, lineage, logged_out, used>>
    /\ UNCHANGED blobs

\* hash_password, db.add, db.commit: the unique index on email turns a duplicate
\* into an unhandled IntegrityError (500).
RegisterInsert(w) ==
    /\ resp = NoResp
    /\ pc[w] = "register_insert"
    /\ IF user_by_email(loc[w].email) # NoUser
       THEN /\ resp' = [Response("register", 500, "Internal Server Error", NoHeaders)
                            EXCEPT !.ctx = loc[w].ctx]
            /\ UNCHANGED users
       ELSE LET new_user == User(NewId, loc[w].email,
                                 hash_password(loc[w].password))
            IN  /\ users' = users \cup {new_user}
                /\ resp' = [Response("register", 201, "none", NoHeaders)
                                EXCEPT !.user = new_user, !.ctx = loc[w].ctx]
    /\ pc' = [pc EXCEPT ![w] = "idle"]
    /\ loc' = [loc EXCEPT ![w] = NoLoc]
    /\ UNCHANGED <<refresh_tokens, now, ticks, jumps, grants, lineage, logged_out, used>>
    /\ UNCHANGED blobs

\* ------------------------------------------------------------ login
\* A login whose rejection tells the caller which of the two checks failed.
LoginFailure_Enumerating(cause) ==
    [Response("login", 401,
              IF cause = "no_user" THEN "User not found" ELSE "Incorrect password",
              WWWAuthenticate)
        EXCEPT !.cause = cause]

\* The one rejection of login, raised for an unknown email and for a wrong password.
LoginFailure(cause) ==
    [Response("login", 401, "Invalid email or password", WWWAuthenticate)
        EXCEPT !.cause = cause]

\* A ledger without the unique index on token_hash: every insert goes through.
InsertFails_Never(token_hash) == FALSE

\* db.add(db_token); db.commit(): the unique index on token_hash refuses a second
\* record with the same hash (IntegrityError), else the record is appended.
InsertFails(token_hash) == find_by_hash(token_hash) # 0

\* A login that stores the session first and verifies the password afterwards.
Login_StoreFirst(w, email, password, rs) ==
    /\ Free(w)
    /\ LET user == user_by_email(email)
           refresh_token == create_refresh_token(user.id, rs[3], rs[4])
           token_hash == hash_refresh_token(refresh_token)
           expires_at == rs[5] + REFRESH_TOKEN_EXPIRE_SECONDS * TicksPerSec
       IN  IF user = NoUser
           THEN /\ resp' = [LoginFailure("no_user") EXCEPT !.ctx = LoginCtx(email, password)]
                /\ UNCHANGED <<refresh_tokens, now, ticks, jumps, grants>>
           ELSE /\ Room(token_hash)
                /\ Advance(rs[5])
                /\ refresh_tokens' =
                       IF InsertFails(token_hash) THEN refresh_tokens
                       ELSE Append(refresh_tokens,
                                   RefreshToken(user.id, token_hash, expires_at, FALSE))
                /\ resp' = [LoginFailure("bad_password")
                                EXCEPT !.ctx = LoginCtx(email, password)]
                /\ UNCHANGED grants
    /\ UNCHANGED <<users, pc, loc, lineage, logged_out, used>>
    /\ UNCHANGED blobs

\* rs: the five clock reads of the handler, in program order.
Login(w, email, password, rs) ==
    /\ Free(w)
    /\ LET user == user_by_email(email)
       IN  IF user = NoUser \/ ~verify_password(password, user.password_hash)
           THEN /\ resp' = [LoginFailure(IF user = NoUser THEN "no_user"
                                                           ELSE "bad_password")
                                EXCEPT !.ctx = LoginCtx(email, password)]
                /\ UNCHANGED <<refresh_tokens, now, ticks, jumps, grants>>
           ELSE      LET access_token == create_access_token(user.id, rs[1], rs[2])
                         refresh_token == create_refresh_token(user.id, rs[3], rs[4])
                         token_hash == hash_refresh_token(refresh_token)
                         expires_at == rs[5] + REFRESH_TOKEN_EXPIRE_SECONDS * TicksPerSec
                         pair == TokenPair(access_token, refresh_token, "bearer",
                                           ACCESS_TOKEN_EXPIRE_SECONDS)
                     IN  /\ Room(token_hash)
                         /\ Advance(rs[5])
                         /\ IF InsertFails(token_hash)
                            THEN /\ resp' = [Response("login", 500,
                                                 "Internal Server Error", NoHeaders)
                                                 EXCEPT !.ctx = LoginCtx(email, password)]
                                 /\ UNCHANGED <<refresh_tokens, grants>>
                            ELSE /\ refresh_tokens' = Append(refresh_tokens,
                                         RefreshToken(user.id, token_hash, expires_at, FALSE))
                                 /\ grants' = grants \cup
                                         {[op |-> "login", old |-> NoToken, pair |-> pair]}
                                 /\ resp' = [Response("login", 200, "none", NoHeaders)
                                                 EXCEPT !.pair = pair,
                                                        !.ctx = LoginCtx(email, password)]
    /\ UNCHANGED <<users, pc, loc, lineage, logged_out, used>>
    /\ UNCHANGED blobs

\* ------------------------------------------------------------ refresh
\* A validation that does not look at db_token.revoked.
refresh_validate_IgnoreRevoked(token, r_dec, r_db) ==
    IF decode_token(token, r_dec) = "expired" THEN "Refresh token has expired"
    ELSE IF decode_token(token, r_dec) = "invalid" THEN "Invalid refresh token"
    ELSE IF token.type # "refresh" THEN "Invalid token type. Expected refresh token"
    ELSE IF token.sub = 0 THEN "Invalid token payload"
    ELSE LET id == find_by_hash(hash_refresh_token(token))
         IN  IF id = 0 THEN "Refresh token not found"
             ELSE IF refresh_tokens[id].expires_at < r_db THEN "Refresh token has expired"
             ELSE "ok"

\* A validation that trusts the signature and the exp claim alone.
refresh_validate_SignatureOnly(token, r_dec, r_db) ==
    IF decode_token(token, r_dec) = "expired" THEN "Refresh token has expired"
    ELSE IF decode_token(token, r_dec) = "invalid" THEN "Invalid refresh token"
    ELSE "ok"

\* A validation that looks at no expiry, neither the exp claim nor expires_at.
refresh_validate_NoExpiry(token, r_dec, r_db) ==
    IF ~token.signed THEN "Invalid refresh token"
    ELSE IF token.type # "refresh" THEN "Invalid token type. Expected refresh token"
    ELSE IF token.sub = 0 THEN "Invalid token payload"
    ELSE LET id == find_by_hash(hash_refresh_token(token))
         IN  IF id = 0 THEN "Refresh token not found"
             ELSE IF refresh_tokens[id].revoked THEN "Refresh token has been revoked"
             ELSE "ok"

\* Steps 1 to 4 of refresh_tokens: the detail of the 401 it raises, or "ok".
\* r_dec is the clock read of decode_token, r_db the read of the expires_at check.
refresh_validate(token, r_dec, r_db) ==
    IF decode_token(token, r_dec) = "expired" THEN "Refresh token has expired"
    ELSE IF decode_token(token, r_dec) = "invalid" THEN "Invalid refresh token"
    ELSE IF token.type # "refresh" THEN "Invalid token type. Expected refresh token"
    ELSE IF token.sub = 0 THEN "Invalid token payload"
    ELSE LET id == find_by_hash(hash_refresh_token(token))
         IN  IF id = 0 THEN "Refresh token not found"
             ELSE IF refresh_tokens[id].revoked THEN "Refresh token has been revoked"
             ELSE IF refresh_tokens[id].expires_at < r_db THEN "Refresh token has expired"
             ELSE "ok"

\* A rejection that answers 403 for a revoked token.
RefreshRejection_Forbidden(detail) ==
    [Response("refresh",
              IF detail = "Refresh token has been revoked" THEN 403 ELSE 401,
              detail, NoHeaders)
        EXCEPT !.cause = detail]

\* raise HTTPException(status_code=401, detail=...): the rejection of a refresh call.
RefreshRejection(detail) ==
    [Response("refresh", 401, detail, NoHeaders) EXCEPT !.cause = detail]

\* A refresh that takes the replay of a revoked token for a theft and revokes every
\* record of the token's owner before it rejects.
RefreshCheck_ReuseDetection(w, token, rs) ==
    /\ Free(w)
    /\   LET verdict == refresh_validate(token, rs[1], rs[2])
             ctx == RefreshCtx(token, rs[1])
         IN  IF verdict # "ok"
             THEN /\ resp' = [RefreshRejection(verdict) EXCEPT !.ctx = ctx]
                  /\ refresh_tokens' =
                         IF verdict = "Refresh token has been revoked"
                         THEN [i \in 1..Len(refresh_tokens) |->
                                  IF refresh_tokens[i].user_id = token.sub
                                  THEN [refresh_tokens[i] EXCEPT !.revoked = TRUE]
                                  ELSE refresh_tokens[i]]
                         ELSE refresh_tokens
                  /\ Advance(rs[2])
                  /\ UNCHANGED <<pc, loc, used>>
             ELSE /\ Room(hash_refresh_token(create_refresh_token(token.sub, rs[5], rs[6])))
                  /\ pc' = [pc EXCEPT ![w] = "refresh_revoke"]
                  /\ loc' = [loc EXCEPT ![w] =
                        [NoLoc EXCEPT !.token = token,
                            !.id = find_by_hash(hash_refresh_token(token)),
                            !.access = create_access_token(token.sub, rs[3], rs[4]),
                            !.refresh = create_refresh_token(token.sub, rs[5], rs[6]),
                            !.ctx = ctx]]
                  /\ used' = used \cup {token}
                  /\ resp' = NoResp
                  /\ Advance(rs[6])
                  /\ UNCHANGED refresh_tokens
    /\ UNCHANGED <<users, grants, lineage, logged_out>>
    /\ UNCHANGED blobs

\* Steps 1 to 5: validate, then build the new pair (nothing is written yet).
\* rs: the six clock reads of these steps, in program order.
RefreshCheck(w, token, rs) ==
    /\ Free(w)
    /\   LET verdict == refresh_validate(token, rs[1], rs[2])
             ctx == RefreshCtx(token, rs[1])
         IN  IF verdict # "ok"
             THEN /\ resp' = [RefreshRejection(verdict) EXCEPT !.ctx = ctx]
                  /\ Advance(rs[2])
                  /\ UNCHANGED <<pc, loc, used>>
             ELSE /\ Room(hash_refresh_token(create_refresh_token(token.sub, rs[5], rs[6])))
                  /\ pc' = [pc EXCEPT ![w] = "refresh_revoke"]
                  /\ loc' = [loc EXCEPT ![w] =
                        [NoLoc EXCEPT !.token = token,
                            !.id = find_by_hash(hash_refresh_token(token)),
                            !.access = create_access_token(token.sub, rs[3], rs[4]),
                            !.refresh = create_refresh_token(token.sub, rs[5], rs[6]),
                            !.ctx = ctx]]
                  /\ used' = used \cup {token}
                  /\ resp' = NoResp
                  /\ Advance(rs[6])
    /\ UNCHANGED <<users, refresh_tokens, grants, lineage, logged_out>>
    /\ UNCHANGED blobs

\* A rotation that goes on to the insert without revoking the old record.
RefreshRevoke_Skip(w) ==
    /\ resp = NoResp
    /\ pc[w] = "refresh_revoke"
    /\ pc' = [pc EXCEPT ![w] = "refresh_insert"]
    /\ resp' = NoResp
    /\ UNCHANGED <<users, refresh_tokens, now, ticks, jumps, loc, grants, lineage,
                   logged_out, used>>
    /\ UNCHANGED blobs

\* Step 6: db_token.revoked = True; db.commit().
RefreshRevoke(w) ==
    /\ resp = NoResp
    /\ pc[w] = "refresh_revoke"
    /\ refresh_tokens' = [refresh_tokens EXCEPT ![loc[w].id].revoked = TRUE]
    /\ pc' = [pc EXCEPT ![w] = "refresh_insert"]
    /\ resp' = NoResp
    /\ UNCHANGED <<users, now, ticks, jumps, loc, grants, lineage, logged_out, used>>
    /\ UNCHANGED blobs

\* A rotation that files the new record under another owner.
RefreshInsert_Reowned(w, rs) ==
    /\ resp = NoResp
    /\ pc[w] = "refresh_insert"
    /\   LET new_token_hash == hash_refresh_token(loc[w].refresh)
             new_expires_at == rs[1] + REFRESH_TOKEN_EXPIRE_SECONDS * TicksPerSec
             pair == TokenPair(loc[w].access, loc[w].refresh, "bearer",
                               ACCESS_TOKEN_EXPIRE_SECONDS)
             answer(status, detail) ==
                 [Response("refresh", status, detail, NoHeaders)
                     EXCEPT !.cause = "ok", !.ctx = loc[w].ctx]
         IN  /\ Advance(rs[1])
             /\ IF InsertFails(new_token_hash)
                THEN /\ resp' = answer(500, "Internal Server Error")
                     /\ UNCHANGED <<refresh_tokens, grants, lineage>>
                ELSE /\ refresh_tokens' = Append(refresh_tokens,
                            RefreshToken(loc[w].token.sub + 1, new_token_hash,
                                         new_expires_at, FALSE))
                     /\ lineage' = lineage \cup {<<loc[w].id, Len(refresh_tokens) + 1>>}
                     /\ grants' = grants \cup
                            {[op |-> "refresh", old |-> loc[w].token, pair |-> pair]}
                     /\ resp' = [answer(200, "none") EXCEPT !.pair = pair]
    /\ pc' = [pc EXCEPT ![w] = "idle"]
    /\ loc' = [loc EXCEPT ![w] = NoLoc]
    /\ UNCHANGED <<users, logged_out, used>>
    /\ UNCHANGED blobs

\* Steps 7 and 8: insert the new record, commit, return the pair.
RefreshInsert(w, rs) ==
    /\ resp = NoResp
    /\ pc[w] = "refresh_insert"
    /\   LET new_token_hash == hash_refresh_token(loc[w].refresh)
             new_expires_at == rs[1] + REFRESH_TOKEN_EXPIRE_SECONDS * TicksPerSec
             pair == TokenPair(loc[w].access, loc[w].refresh, "bearer",
                               ACCESS_TOKEN_EXPIRE_SECONDS)
             answer(status, detail) ==
                 [Response("refresh", status, detail, NoHeaders)
                     EXCEPT !.cause = "ok", !.ctx = loc[w].ctx]
         IN  /\ Advance(rs[1])
             /\ IF InsertFails(new_token_hash)
                THEN /\ resp' = answer(500, "Internal Server Error")
                     /\ UNCHANGED <<refresh_tokens, grants, lineage>>
                ELSE /\ refresh_tokens' = Append(refresh_tokens,
                            RefreshToken(loc[w].token.sub, new_token_hash,
                                         new_expires_at, FALSE))
                     /\ lineage' = lineage \cup {<<loc[w].id, Len(refresh_tokens) + 1>>}
                     /\ grants' = grants \cup
                            {[op |-> "refresh", old |-> loc[w].token, pair |-> pair]}
                     /\ resp' = [answer(200, "none") EXCEPT !.pair = pair]
    /\ pc' = [pc EXCEPT ![w] = "idle"]
    /\ loc' = [loc EXCEPT ![w] = NoLoc]
    /\ UNCHANGED <<users, logged_out, used>>
    /\ UNCHANGED blobs

\* ------------------------------------------------------------ logout
\* A logout that refuses a token whose record is already revoked.
LogoutLookup_Strict(w, token) ==
    /\ Free(w)
    /\ LET id == find_by_hash(hash_refresh_token(token))
           ctx == RefreshCtx(token, now)
       IN  IF id = 0
           THEN /\ resp' = [Response("logout", 204, "none", NoHeaders)
                                EXCEPT !.ctx = ctx]
                /\ UNCHANGED <<pc, loc>>
           ELSE IF refresh_tokens[id].revoked
           THEN /\ resp' = [Response("logout", 401, "Refresh token has been revoked",
                                     NoHeaders) EXCEPT !.ctx = ctx]
                /\ UNCHANGED <<pc, loc>>
           ELSE /\ pc' = [pc EXCEPT ![w] = "logout_revoke"]
                /\ loc' = [loc EXCEPT ![w] = [NoLoc EXCEPT !.token = token, !.id = id,
                                                           !.ctx = ctx]]
                /\ resp' = NoResp
    /\ UNCHANGED <<users, refresh_tokens, now, ticks, jumps, grants, lineage,
                   logged_out, used>>
    /\ UNCHANGED blobs

\* A logout that lets the error of decode_token through.
LogoutLookup_Verifying(w, token) ==
    /\ Free(w)
    /\ LET payload == decode_token(token, now)
           id == find_by_hash(hash_refresh_token(token))
           ctx == RefreshCtx(token, now)
       IN  IF payload # "ok"
           THEN /\ resp' = [Response("logout", 401, "Invalid refresh token", NoHeaders)
                                EXCEPT !.ctx = ctx]
                /\ UNCHANGED <<pc, loc>>
           ELSE IF id = 0
           THEN /\ resp' = [Response("logout", 204, "none", NoHeaders)
                                EXCEPT !.ctx = ctx]
                /\ UNCHANGED <<pc, loc>>
           ELSE /\ pc' = [pc EXCEPT ![w] = "logout_revoke"]
                /\ loc' = [loc EXCEPT ![w] = [NoLoc EXCEPT !.token = token, !.id = id,
                                                           !.ctx = ctx]]
                /\ resp' = NoResp
    /\ UNCHANGED <<users, refresh_tokens, now, ticks, jumps, grants, lineage,
                   logged_out, used>>
    /\ UNCHANGED blobs

\* Steps 1 and 2: decode_token runs inside try/except and its outcome, a payload
\* or an error, is dropped; then the hash is looked up.
LogoutLookup(w, token) ==
    /\ Free(w)
    /\ LET payload == decode_token(token, now)
           id == find_by_hash(hash_refresh_token(token))
           ctx == RefreshCtx(token, now)
       IN  IF id = 0
           THEN /\ resp' = [Response("logout", 204, "none", NoHeaders)
                                EXCEPT !.ctx = ctx]
                /\ UNCHANGED <<pc, loc>>
           ELSE /\ pc' = [pc EXCEPT ![w] = "logout_revoke"]
                /\ loc' = [loc EXCEPT ![w] = [NoLoc EXCEPT !.token = token, !.id = id,
                                                           !.ctx = ctx]]
                /\ resp' = NoResp
    /\ UNCHANGED <<users, refresh_tokens, now, ticks, jumps, grants, lineage,
                   logged_out, used>>
    /\ UNCHANGED blobs

\* A logout that answers 204 without revoking the record.
LogoutRevoke_Skip(w) ==
    /\ resp = NoResp
    /\ pc[w] = "logout_revoke"
    /\ logged_out' = logged_out \cup {loc[w].token}
    /\ resp' = [Response("logout", 204, "none", NoHeaders)
                    EXCEPT !.ctx = [loc[w].ctx EXCEPT !.existed = TRUE]]
    /\ pc' = [pc EXCEPT ![w] = "idle"]
    /\ loc' = [loc EXCEPT ![w] = NoLoc]
    /\ UNCHANGED <<users, refresh_tokens, now, ticks, jumps, grants, lineage, used>>
    /\ UNCHANGED blobs

\* A logout that flips the flag instead of setting it.
LogoutRevoke_Toggle(w) ==
    /\ resp = NoResp
    /\ pc[w] = "logout_revoke"
    /\ refresh_tokens' = [refresh_tokens EXCEPT
                              ![loc[w].id].revoked = ~refresh_tokens[loc[w].id].revoked]
    /\ logged_out' = logged_out \cup {loc[w].token}
    /\ resp' = [Response("logout", 204, "none", NoHeaders)
                    EXCEPT !.ctx = [loc[w].ctx EXCEPT !.existed = TRUE]]
    /\ pc' = [pc EXCEPT ![w] = "idle"]
    /\ loc' = [loc EXCEPT ![w] = NoLoc]
    /\ UNCHANGED <<users, now, ticks, jumps, grants, lineage, used>>
    /\ UNCHANGED blobs

\* A logout that deletes the record instead of flagging it.
LogoutRevoke_Delete(w) ==
    /\ resp = NoResp
    /\ pc[w] = "logout_revoke"
    /\ refresh_tokens' = SubSeq(refresh_tokens, 1, loc[w].id - 1) \o
                         SubSeq(refresh_tokens, loc[w].id + 1, Len(refresh_tokens))
    /\ logged_out' = logged_out \cup {loc[w].token}
    /\ resp' = [Response("logout", 204, "none", NoHeaders)
                    EXCEPT !.ctx = [loc[w].ctx EXCEPT !.existed = TRUE]]
    /\ pc' = [pc EXCEPT ![w] = "idle"]
    /\ loc' = [loc EXCEPT ![w] = NoLoc]
    /\ UNCHANGED <<users, now, ticks, jumps, grants, lineage, used>>
    /\ UNCHANGED blobs

\* A logout of all sessions: it revokes every record of the token's owner.
LogoutRevoke_AllSessions(w) ==
    /\ resp = NoResp
    /\ pc[w] = "logout_revoke"
    /\ refresh_tokens' =
           [i \in 1..Len(refresh_tokens) |->
               IF refresh_tokens[i].user_id = refresh_tokens[loc[w].id].user_id
               THEN [refresh_tokens[i] EXCEPT !.revoked = TRUE]
               ELSE refresh_tokens[i]]
    /\ logged_out' = logged_out \cup {loc[w].token}
    /\ resp' = [Response("logout", 204, "none", NoHeaders)
                    EXCEPT !.ctx = [loc[w].ctx EXCEPT !.existed = TRUE]]
    /\ pc' = [pc EXCEPT ![w] = "idle"]
    /\ loc' = [loc EXCEPT ![w] = NoLoc]
    /\ UNCHANGED <<users, now, ticks, jumps, grants, lineage, used>>
    /\ UNCHANGED blobs

\* Step 3: db_token.revoked = True; db.commit(); 204.
LogoutRevoke(w) ==
    /\ resp = NoResp
    /\ pc[w] = "logout_revoke"
    /\ refresh_tokens' = [refresh_tokens EXCEPT ![loc[w].id].revoked = TRUE]
    /\ logged_out' = logged_out \cup {loc[w].token}
    /\ resp' = [Response("logout", 204, "none", NoHeaders)
                    EXCEPT !.ctx = [loc[w].ctx EXCEPT !.existed = TRUE]]
    /\ pc' = [pc EXCEPT ![w] = "idle"]
    /\ loc' = [loc EXCEPT ![w] = NoLoc]
    /\ UNCHANGED <<users, now, ticks, jumps, grants, lineage, used>>
    /\ UNCHANGED blobs

\* ------------------------------------------------------------ session guard
\* A guard that does not look at the type claim.
get_current_user_AnyType(w, token, r) ==
    LET deny(detail) ==
            Response("me", 401, detail, WWWAuthenticate)
    IN  IF decode_token(token, r) = "expired" THEN deny("Token has expired")
        ELSE IF decode_token(token, r) = "invalid"
            THEN deny("Could not validate credentials")
        ELSE IF token.sub = 0 THEN deny("Token payload invalid")
        ELSE IF user_by_id(token.sub) = NoUser THEN deny("User not found")
        ELSE [Response("me", 200, "none", NoHeaders)
                 EXCEPT !.user = user_by_id(token.sub)]

\* A guard that decodes without verifying the signature.
get_current_user_Unverified(w, token, r) ==
    LET deny(detail) ==
            Response("me", 401, detail, WWWAuthenticate)
    IN  IF token.signed /\ decode_token(token, r) = "expired"
            THEN deny("Token has expired")
        ELSE IF token.type # "access"
            THEN deny("Invalid token type. Expected access token")
        ELSE IF token.sub = 0 THEN deny("Token payload invalid")
        ELSE IF user_by_id(token.sub) = NoUser THEN deny("User not found")
        ELSE [Response("me", 200, "none", NoHeaders)
                 EXCEPT !.user = user_by_id(token.sub)]

\* A guard that consults the ledger: it rejects the token of an Identity that has
\* a revoked Refresh Record.
get_current_user_LedgerBound(w, token, r) ==
    LET deny(detail) ==
            Response("me", 401, detail, WWWAuthenticate)
    IN  IF decode_token(token, r) = "expired" THEN deny("Token has expired")
        ELSE IF decode_token(token, r) = "invalid"
            THEN deny("Could not validate credentials")
        ELSE IF token.type # "access"
            THEN deny("Invalid token type. Expected access token")
        ELSE IF token.sub = 0 THEN deny("Token payload invalid")
        ELSE IF user_by_id(token.sub) = NoUser THEN deny("User not found")
        ELSE IF \E i \in 1..Len(refresh_tokens) :
                    refresh_tokens[i].user_id = token.sub /\ refresh_tokens[i].revoked
            THEN deny("Session has ended")
        ELSE [Response("me", 200, "none", NoHeaders)
                 EXCEPT !.user = user_by_id(token.sub)]

\* A guard that trusts the claims: it does not require the Identity to be stored.
get_current_user_TrustClaims(w, token, r) ==
    LET deny(detail) ==
            Response("me", 401, detail, WWWAuthenticate)
    IN  IF decode_token(token, r) = "expired" THEN deny("Token has expired")
        ELSE IF decode_token(token, r) = "invalid"
            THEN deny("Could not validate credentials")
        ELSE IF token.type # "access"
            THEN deny("Invalid token type. Expected access token")
        ELSE IF token.sub = 0 THEN deny("Token payload invalid")
        ELSE [Response("me", 200, "none", NoHeaders)
                 EXCEPT !.user = IF user_by_id(token.sub) = NoUser
                                 THEN User(token.sub, "none", <<"none", "none">>)
                                 ELSE user_by_id(token.sub)]

\* get_current_user behind GET /auth/me: the response of the guarded request.
get_current_user(w, token, r) ==
    LET deny(detail) ==
            Response("me", 401, detail, WWWAuthenticate)
    IN  IF decode_token(token, r) = "expired" THEN deny("Token has expired")
        ELSE IF decode_token(token, r) = "invalid"
            THEN deny("Could not validate credentials")
        ELSE IF token.type # "access"
            THEN deny("Invalid token type. Expected access token")
        ELSE IF token.sub = 0 THEN deny("Token payload invalid")
        ELSE IF user_by_id(token.sub) = NoUser THEN deny("User not found")
        ELSE [Response("me", 200, "none", NoHeaders)
                 EXCEPT !.user = user_by_id(token.sub)]

\* A guarded request that revokes the caller's Refresh Records when it rejects.
WhoAmI_Revoking(w, token, rs) ==
    /\ Free(w)
    /\ resp' = [get_current_user(w, token, rs[1]) EXCEPT !.ctx = RefreshCtx(token, rs[1])]
    /\ refresh_tokens' =
           IF get_current_user(w, token, rs[1]).status = 200 THEN refresh_tokens
           ELSE [i \in 1..Len(refresh_tokens) |->
                    [refresh_tokens[i] EXCEPT !.revoked = TRUE]]
    /\ Advance(rs[1])
    /\ UNCHANGED <<users, pc, loc, grants, lineage, logged_out, used>>
    /\ UNCHANGED blobs

\* GET /auth/me: the guard resolves the bearer token, the handler returns the user.
WhoAmI(w, token, rs) ==
    /\ Free(w)
    /\ resp' = [get_current_user(w, token, rs[1]) EXCEPT !.ctx = RefreshCtx(token, rs[1])]
    /\ Advance(rs[1])
    /\ UNCHANGED <<users, refresh_tokens, pc, loc, grants, lineage, logged_out, used>>
    /\ UNCHANGED blobs

\* ------------------------------------------------------------ upload
\* bearer_scheme = HTTPBearer(): a request without an Authorization header is
\* refused before get_current_user runs; NoToken stands for the missing header.
bearer_scheme(token) ==
    IF token = NoToken THEN Response("upload", 403, "Not authenticated", NoHeaders)
    ELSE Response("upload", 200, "none", NoHeaders)

\* A key that puts the filename first.
object_key_Suffixed(timestamp, user_id, filename) ==
    filename \o <<"-", ToString(user_id), "-", ToString(timestamp)>>

\* object_key = f"{timestamp}-{current_user.id}-{file.filename}"
object_key(timestamp, user_id, filename) ==
    <<ToString(timestamp), "-", ToString(user_id), "-">> \o filename

\* s3.upload_fileobj(file.file, bucket, object_key): the object of that key, if
\* any, is replaced.
upload_fileobj(body, key) ==
    {b \in blobs : b.key # key} \cup {[key |-> key, body |-> body]}

\* s3.generate_presigned_url("get_object", ..., ExpiresIn=3600)
generate_presigned_url(key) == <<"presigned", 3600>> \o key

\* POST /upload: the guard, then upload_file. rs: the clock reads of the guard
\* and of time.time(); s3: what the object store does with the request.
Upload(w, token, file, s3, rs) ==
    /\ Free(w)
    /\ LET ctx == [RefreshCtx(token, rs[1]) EXCEPT !.file = file]
           auth == get_current_user(w, token, rs[1])
           current_user == auth.user
           fail(detail) == [Response("upload", 500, detail, NoHeaders)
                                EXCEPT !.ctx = ctx]
           timestamp == Sec(rs[2])
           key == object_key(timestamp, current_user.id, file.filename)
           presigned == IF s3 = "presign_error" THEN <<>>
                        ELSE generate_presigned_url(key)
       IN  IF bearer_scheme(token).status # 200
           THEN /\ resp' = [bearer_scheme(token) EXCEPT !.ctx = ctx]
                /\ Advance(rs[1])
                /\ UNCHANGED blobs
           ELSE IF auth.status # 200
           THEN /\ resp' = [auth EXCEPT !.op = "upload", !.ctx = ctx]
                /\ Advance(rs[1])
                /\ UNCHANGED blobs
           ELSE IF s3 = "no_credentials"
           THEN /\ resp' = fail("S3 credentials not configured")
                /\ Advance(rs[1])
                /\ UNCHANGED blobs
           ELSE IF s3 = "bucket_error"
           THEN /\ resp' = fail("Could not create/access bucket")
                /\ Advance(rs[1])
                /\ UNCHANGED blobs
           ELSE IF s3 = "upload_error"
           THEN /\ resp' = fail("Upload failed")
                /\ Advance(rs[2])
                /\ UNCHANGED blobs
           ELSE /\ Cardinality({b.key : b \in blobs} \cup {key}) <= MaxObjects
                /\ blobs' = upload_fileobj(file.body, key)
                /\ Advance(rs[2])
                /\ resp' = [Response("upload", 200, "none", NoHeaders)
                                EXCEPT !.ctx = ctx,
                                       !.upload = UploadResponse(file.filename, key,
                                                                 presigned, "uploaded")]
    /\ UNCHANGED <<users, refresh_tokens, pc, loc, grants, lineage, logged_out, used>>

\* ------------------------------------------------------------ administration
\* An Identity is removed from the users table behind the API (no route does it).
\* Its Refresh Records go with it: user_id is declared ON DELETE CASCADE.
DeleteIdentity(user) ==
    /\ resp = NoResp
    /\ \A w \in Workers : pc[w] = "idle"
    /\ user \in users
    /\ user.id < MaxIdentities
    /\ users' = users \ {user}
    /\ refresh_tokens' = SelectSeq(refresh_tokens, LAMBDA t : t.user_id # user.id)
    /\ resp' = NoResp
    /\ UNCHANGED <<now, ticks, jumps, pc, loc, grants, lineage, logged_out, used, blobs>>

\* ------------------------------------------------------------ failure
\* The process serving a request dies between two steps: no response, and what
\* was committed stays committed.
Crash(w) ==
    /\ resp = NoResp
    /\ pc[w] # "idle"
    /\ pc' = [pc EXCEPT ![w] = "idle"]
    /\ loc' = [loc EXCEPT ![w] = NoLoc]
    /\ resp' = NoResp
    /\ UNCHANGED <<users, refresh_tokens, now, ticks, jumps, grants, lineage,
                   logged_out, used>>
    /\ UNCHANGED blobs

\* The response leaves the server: the next step starts from a clear wire.
Deliver ==
    /\ resp # NoResp
    /\ resp' = NoResp
    /\ UNCHANGED <<users, refresh_tokens, now, ticks, jumps, pc, loc, grants, lineage,
                   logged_out, used>>
    /\ UNCHANGED blobs

\* ------------------------------------------------------------ specification
\* W: the workers that serve requests; drift: the ticks the clock may advance
\* inside a handler step.
NextOf(W, drift) ==
    \/ Tick
    \/ \E w \in W, email \in Registrants, password \in Passwords :
           RegisterCheck(w, email, password)
    \/ \E w \in W : RegisterInsert(w)
    \/ \E w \in W, email \in Emails, password \in Passwords, rs \in ReadSeqs(5, drift) :
           Login(w, email, password, rs)
    \/ \E w \in W, token \in Presentable, rs \in ReadSeqs(6, drift) :
           RefreshCheck(w, token, rs)
    \/ \E w \in W : RefreshRevoke(w)
    \/ \E w \in W, rs \in ReadSeqs(1, drift) : RefreshInsert(w, rs)
    \/ \E w \in W, token \in Presentable : LogoutLookup(w, token)
    \/ \E w \in W : LogoutRevoke(w)
    \/ \E w \in W, token \in Presentable, rs \in ReadSeqs(1, drift) :
           WhoAmI(w, token, rs)
    \/ \E w \in W : Crash(w)
    \/ Deliver

TTLs == {ACCESS_TOKEN_EXPIRE_SECONDS, REFRESH_TOKEN_EXPIRE_SECONDS}

\* One request at a time; the clock may advance while a handler runs.
Next == NextOf({1}, MaxDrift)

Spec == Init /\ [][Next]_vars

\* One request at a time, with long waits between requests.
NextExpiry ==
    \/ NextOf({1}, 0)
    \/ \E seconds \in TTLs : Jump(seconds)

SpecExpiry == Init /\ [][NextExpiry]_vars

\* Two concurrent requests, every interleaving of their steps.
NextRace == NextOf(Workers, 0)

SpecRace == Init /\ [][NextRace]_vars

\* One request at a time: accounts, logins and uploads, with waits of an access
\* token's lifetime.
NextUpload ==
    \/ Tick
    \/ Jump(ACCESS_TOKEN_EXPIRE_SECONDS)
    \/ \E email \in Registrants, password \in Passwords : RegisterCheck(1, email, password)
    \/ RegisterInsert(1)
    \/ \E email \in Emails, password \in Passwords, rs \in ReadSeqs(5, 0) :
           Login(1, email, password, rs)
    \/ \E token \in Presentable \cup {NoToken}, file \in Files, s3 \in S3Outcomes,
          rs \in ReadSeqs(2, 0) :
           Upload(1, token, file, s3, rs)
    \/ Deliver

SpecUpload == Init /\ [][NextUpload]_vars

\* One request at a time: accounts, logins and guarded requests, while Identities
\* may be removed, with waits of an access token's lifetime.
NextGuard ==
    \/ Tick
    \/ Jump(ACCESS_TOKEN_EXPIRE_SECONDS)
    \/ \E email \in Registrants, password \in Passwords : RegisterCheck(1, email, password)
    \/ RegisterInsert(1)
    \/ \E email \in Emails, password \in Passwords, rs \in ReadSeqs(5, 0) :
           Login(1, email, password, rs)
    \/ \E token \in Presentable, rs \in ReadSeqs(1, 0) : WhoAmI(1, token, rs)
    \/ \E user \in users : DeleteIdentity(user)
    \/ Deliver

SpecGuard == Init /\ [][NextGuard]_vars

\* One request at a time, two Identities, each with its sessions: accounts, logins,
\* rotations and logouts.
NextSessions ==
    \/ Tick
    \/ \E email \in Emails : RegisterCheck(1, email, "password123")
    \/ RegisterInsert(1)
    \/ \E email \in Emails, rs \in ReadSeqs(5, 0) : Login(1, email, "password123", rs)
    \/ \E token \in Presentable, rs \in ReadSeqs(6, 0) : RefreshCheck(1, token, rs)
    \/ RefreshRevoke(1)
    \/ \E rs \in ReadSeqs(1, 0) : RefreshInsert(1, rs)
    \/ \E token \in Presentable : LogoutLookup(1, token)
    \/ LogoutRevoke(1)
    \/ Deliver

SpecSessions == Init /\ [][NextSessions]_vars

\* ------------------------------------------------------------ properties
\* The ledger records whose token_hash is the hash of token.
RecordsOf(token) ==
    {i \in 1..Len(refresh_tokens) :
        refresh_tokens[i].token_hash = hash_refresh_token(token)}

\* The record a lineage started with: the login record from which record i
\* descends by rotations.
RECURSIVE Root(_)
Root(i) ==
    IF \E l \in lineage : l[2] = i
    THEN Root((CHOOSE l \in lineage : l[2] = i)[1])
    ELSE i

\* The grants of successful rotations.
Rotations == {g \in grants : g.op = "refresh"}

\* C1: once a rotate of T has succeeded, every later refresh call that presents T
\* is answered 401 and carries no token pair.
C1_OneTimeUse ==
    (resp.op = "refresh" /\ resp.ctx.after_rotate)
        => (resp.status = 401 /\ resp.pair = NoPair)

\* A refresh call on an already rotated token has been answered with a rejection.
C1_Witness ==
    /\ resp.op = "refresh"
    /\ resp.ctx.after_rotate
    /\ resp.status = 401
    /\ resp.detail = "Refresh token has been revoked"

\* C2: of the rotate calls that present the same token, at most one succeeds,
\* also when their steps interleave.
C2_AtMostOneRotation ==
    \A g1 \in Rotations, g2 \in Rotations : g1.old = g2.old => g1 = g2

\* C3: a refresh call on a token B that a successful rotation returned, that has
\* not been logged out, has not expired and has not been presented to refresh
\* before, succeeds; earlier replays of its predecessor do not change that.
C3_SuccessorUsable ==
    (/\ resp.op = "refresh"
     /\ resp.ctx.of_rotation
     /\ resp.ctx.first_use
     /\ resp.ctx.unexpired
     /\ ~resp.ctx.after_logout)
        => resp.status = 200

\* C4: every successful rotation of T returns a refresh token different from T and
\* an access token different from the access token that was issued together with T.
C4_BrandNewTokens ==
    \A g \in Rotations :
        /\ g.pair.refresh_token # g.old
        /\ \A g0 \in grants :
               g0.pair.refresh_token = g.old
                   => g.pair.access_token # g0.pair.access_token

\* C5: once logout has revoked the record of T, every later refresh call that
\* presents T is answered 401 and carries no token pair.
C5_LogoutKillsToken ==
    (resp.op = "refresh" /\ resp.ctx.after_logout)
        => (resp.status = 401 /\ resp.pair = NoPair)

\* A refresh call on a logged-out token has been answered with a rejection.
C5_Witness ==
    /\ resp.op = "refresh"
    /\ resp.ctx.after_logout
    /\ ~resp.ctx.after_rotate
    /\ resp.status = 401

\* C6: whenever login or refresh returns a token pair, the ledger holds exactly one
\* record with the hash of the returned refresh token, that record is not revoked
\* and belongs to the subject of the token; a call whose insert failed returns none.
C6_ReturnedTokenRecorded ==
    resp.pair # NoPair =>
        /\ resp.op \in {"login", "refresh"}
        /\ resp.status = 200
        /\ Cardinality(RecordsOf(resp.pair.refresh_token)) = 1
        /\ \A i \in RecordsOf(resp.pair.refresh_token) :
               /\ ~refresh_tokens[i].revoked
               /\ refresh_tokens[i].user_id = resp.pair.refresh_token.sub

\* A rotation has just returned a pair while other records exist in the ledger.
C6_Witness ==
    /\ resp.op = "refresh"
    /\ resp.pair # NoPair
    /\ Len(refresh_tokens) > 1
    /\ Cardinality(RecordsOf(resp.pair.refresh_token)) = 1

\* C7: in every reachable state, also after a crash between the two commits of a
\* rotation, the record a successor was created from is revoked.
C7_PredecessorRevoked ==
    \A p \in lineage : refresh_tokens[p[1]].revoked

\* A successor record exists, is live, and its predecessor is revoked.
C7_Witness ==
    \E p \in lineage :
        /\ refresh_tokens[p[1]].revoked
        /\ ~refresh_tokens[p[2]].revoked

\* C8: no step turns the revoked flag of a record from true to false, and no step
\* removes a revoked record.
C8_RevokedMonotonic ==
    [][\A i \in 1..Len(refresh_tokens) :
          refresh_tokens[i].revoked =>
              (i <= Len(refresh_tokens') /\ refresh_tokens'[i].revoked)]_vars

\* Two records are revoked: steps have been taken after the first revocation.
C8_Witness ==
    \E i, j \in 1..Len(refresh_tokens) :
        /\ i < j
        /\ refresh_tokens[i].revoked
        /\ refresh_tokens[j].revoked

\* C9: a login rejected for an unknown email and a login rejected for a wrong
\* password get the same response: 401, the same detail, the same headers, no body.
C9_UniformLoginRejection ==
    (resp.op = "login" /\ resp.cause \in {"no_user", "bad_password"})
        => [resp EXCEPT !.cause = "none", !.ctx = NoCtx] =
               Response("login", 401, "Invalid email or password", WWWAuthenticate)

\* A login with an unknown email has been rejected while an identity exists.
C9_Witness ==
    /\ resp.op = "login"
    /\ resp.cause = "no_user"
    /\ users # {}

\* C10: a register call whose email was already registered when the call began is
\* answered 409 "Email already registered", and the step leaves users unchanged.
C10_DuplicateEmailRejected ==
    [][(resp'.op = "register" /\ resp'.ctx.existed)
          => /\ resp'.status = 409
             /\ resp'.detail = "Email already registered"
             /\ users' = users]_vars

\* A register call for a registered email has been answered 409.
C10_Witness ==
    /\ resp.op = "register"
    /\ resp.ctx.existed
    /\ resp.status = 409
    /\ users # {}

\* C11: in every reachable state, whatever the interleaving of concurrent register
\* calls, no two Identities share an email.
C11_UniqueEmail ==
    \A u1 \in users, u2 \in users : u1.email = u2.email => u1 = u2

\* A register call that found the email free at its check has lost the race: its
\* insert was refused and one Identity is stored.
C11_Witness ==
    /\ resp.op = "register"
    /\ ~resp.ctx.existed
    /\ resp.status = 500
    /\ Cardinality(users) = 1

\* C12: a login with the credentials of a registered Identity succeeds and returns
\* a pair whose access token carries that Identity's id; that access token,
\* presented to the guard before it expires, resolves to that Identity.
C12_RegisterLoginMe ==
    /\ (resp.op = "login" /\ resp.ctx.valid)
           => /\ resp.status = 200
              /\ resp.pair # NoPair
              /\ resp.pair.access_token.sub = resp.ctx.sub
    /\ (/\ resp.op = "me"
        /\ resp.ctx.of_login
        /\ resp.ctx.type = "access"
        /\ resp.ctx.unexpired)
           => /\ resp.status = 200
              /\ resp.user \in users
              /\ resp.user.id = resp.ctx.sub

\* C13: every logout call is answered 204, and a logout call on a token that has
\* been logged out before, or that has no record, leaves the ledger as it was.
C13_LogoutIdempotent ==
    [][resp'.op = "logout"
          => /\ resp'.status = 204
             /\ (resp'.ctx.after_logout \/ ~resp'.ctx.recorded)
                    => refresh_tokens' = refresh_tokens]_vars

\* A second logout of the same token has been answered 204.
C13_Witness ==
    /\ resp.op = "logout"
    /\ resp.ctx.after_logout
    /\ resp.ctx.revoked
    /\ resp.status = 204

C15_GuardRejectsRefreshToken ==
    (/\ resp.op = "me"
     /\ resp.ctx.signed
     /\ resp.ctx.unexpired
     /\ resp.ctx.type # "access")
        => /\ resp.status = 401
           /\ resp.user = NoUser
           /\ resp.detail \notin {"Token has expired", "Could not validate credentials"}

\* A live refresh token of a registered Identity has been presented to the guard.
C15_Witness ==
    /\ resp.op = "me"
    /\ resp.ctx.signed
    /\ resp.ctx.unexpired
    /\ resp.ctx.type = "refresh"
    /\ resp.ctx.recorded
    /\ ~resp.ctx.revoked
    /\ resp.status = 401

\* C16: refresh answers 401 to every signed, unexpired token whose type is not
\* "refresh", returns no pair, and the step changes no Refresh Record.
C16_RefreshRejectsAccessToken ==
    [][(/\ resp'.op = "refresh"
        /\ resp'.ctx.signed
        /\ resp'.ctx.unexpired
        /\ resp'.ctx.type # "refresh")
          => /\ resp'.status = 401
             /\ resp'.pair = NoPair
             /\ refresh_tokens' = refresh_tokens]_vars

\* A live access token has been presented to refresh and rejected.
C16_Witness ==
    /\ resp.op = "refresh"
    /\ resp.ctx.signed
    /\ resp.ctx.unexpired
    /\ resp.ctx.type = "access"
    /\ resp.status = 401

\* C17: the claims decoded from a freshly issued access token carry the subject it
\* was issued for, type "access" and exp - iat equal to the access TTL, whenever
\* the clock was read inside create_access_token.
C17_CodecRoundTrip ==
    (/\ resp.op \in {"login", "refresh"}
     /\ resp.status = 200
     /\ decode_token(resp.pair.access_token, now) = "ok")
        => LET claims == decode_payload(resp.pair.access_token)
           IN  /\ claims.sub = resp.ctx.sub
               /\ claims.type = "access"
               /\ claims.exp - claims.iat = ACCESS_TOKEN_EXPIRE_SECONDS

\* C18: every pair returned by login and by refresh has token_type "bearer" and
\* expires_in equal to the access TTL, the lifetime its access token was built with.
C18_PairShape ==
    \A g \in grants :
        /\ g.pair.token_type = "bearer"
        /\ g.pair.expires_in = ACCESS_TOKEN_EXPIRE_SECONDS
        /\ g.pair.access_token.exp - g.pair.access_token.iat <= g.pair.expires_in

\* Both a login and a rotation have returned a pair.
C18_Witness ==
    /\ \E g \in grants : g.op = "login"
    /\ \E g \in grants : g.op = "refresh"

C20_UniformRefreshRejection ==
    LET listed(ctx) ==
            \/ ~ctx.signed
            \/ ctx.type = "refresh" /\ (~ctx.unexpired \/ ~ctx.recorded \/ ctx.revoked)
    IN  (resp.op = "refresh" /\ resp.status = 401 /\ listed(resp.ctx))
            => \A token \in Presentable :
                   listed(RefreshCtx(token, now))
                       => refresh_validate(token, now, now) \in {"ok", resp.detail}

\* C21: the Session Guard writes nothing: a step that answers a guarded request,
\* accepted or rejected, leaves the Identities and the Refresh Records (revoked
\* flags included) as they were, and its verdict is a function of the token, the
\* clock and the Identities alone, so the same call at the same time gets the same
\* answer.
C21_GuardReadOnly ==
    [][resp'.op = "me" =>
          /\ users' = users
          /\ refresh_tokens' = refresh_tokens
          /\ (resp'.status = 200) <=>
                 /\ resp'.ctx.signed
                 /\ resp'.ctx.unexpired
                 /\ resp'.ctx.type = "access"
                 /\ user_by_id(resp'.ctx.sub) # NoUser
          /\ resp'.status \in {200, 401}]_vars

\* C21 happens: the guard has rejected a token while the ledger holds a record
\* that is not revoked.
C21_Witness ==
    /\ resp.op = "me"
    /\ resp.status = 401
    /\ \E i \in 1..Len(refresh_tokens) : ~refresh_tokens[i].revoked

\* C22: a bearer token that is no well-formed token or is not signed with the
\* server's key is answered 401 "Could not validate credentials", and the handler
\* behind the guard does not run: the response carries no user.
C22_InvalidBearerRejected ==
    (resp.op = "me" /\ ~resp.ctx.signed) =>
        /\ resp.status = 401
        /\ resp.detail = "Could not validate credentials"
        /\ resp.headers = WWWAuthenticate
        /\ resp.user = NoUser

\* C22 happens: the guard has answered a token without a valid signature while an
\* Identity exists.
C22_Witness ==
    /\ resp.op = "me"
    /\ ~resp.ctx.signed
    /\ users # {}

\* C23: a Refresh Record is never deleted and changes in its revoked flag only:
\* every step keeps every record in place with its user_id, token_hash and
\* expires_at.
C23_RecordsPermanent ==
    [][\A i \in 1..Len(refresh_tokens) :
          /\ i <= Len(refresh_tokens')
          /\ refresh_tokens'[i].user_id = refresh_tokens[i].user_id
          /\ refresh_tokens'[i].token_hash = refresh_tokens[i].token_hash
          /\ refresh_tokens'[i].expires_at = refresh_tokens[i].expires_at]_vars

\* C23 happens: the ledger holds a record revoked by a rotation, its successor,
\* and a record revoked by a logout.
C23_Witness ==
    /\ Len(refresh_tokens) >= 2
    /\ lineage # {}
    /\ \E i \in 1..Len(refresh_tokens) :
           /\ refresh_tokens[i].revoked
           /\ \E token \in logged_out : refresh_tokens[i].token_hash = hash_refresh_token(token)

C27_RotationCompletes ==
    [][\A w \in Workers :
          (/\ pc[w] = "refresh_insert"
           /\ pc'[w] = "idle"
           /\ resp' # NoResp)
              => /\ resp'.op = "refresh"
                 /\ resp'.status = 200
                 /\ resp'.pair # NoPair
                 /\ refresh_tokens'[loc[w].id].revoked
                 /\ Cardinality({i \in 1..Len(refresh_tokens') :
                        /\ refresh_tokens'[i].token_hash =
                               hash_refresh_token(resp'.pair.refresh_token)
                        /\ ~refresh_tokens'[i].revoked}) = 1
                 /\ Cardinality({i \in 1..Len(refresh_tokens') :
                        refresh_tokens'[i].token_hash =
                            hash_refresh_token(resp'.pair.refresh_token)}) = 1]_vars

\* C28: a rotation keeps the subject: the record it inserts has the owner of the
\* record of the rotated token T, and the sub of the access token and of the
\* refresh token it returns is that owner.
C28_SubjectPreserved ==
    /\ \A l \in lineage : refresh_tokens[l[2]].user_id = refresh_tokens[l[1]].user_id
    /\ \A g \in Rotations :
           \A i \in RecordsOf(g.old) :
               /\ decode_payload(g.pair.access_token).sub = refresh_tokens[i].user_id
               /\ decode_payload(g.pair.refresh_token).sub = refresh_tokens[i].user_id
               /\ \A j \in RecordsOf(g.pair.refresh_token) :
                      refresh_tokens[j].user_id = refresh_tokens[i].user_id

\* C28 happens: a rotation has returned a pair whose refresh token is not the
\* rotated one, and both have their records.
C28_Witness ==
    \E g \in Rotations :
        /\ g.pair.refresh_token # g.old
        /\ RecordsOf(g.old) # {}
        /\ RecordsOf(g.pair.refresh_token) # {}
        /\ \E l \in lineage : l[1] \in RecordsOf(g.old)

C30_ExpiryMatchesClaim ==
    \A i \in 1..Len(refresh_tokens) :
        \A g \in grants :
            refresh_tokens[i].token_hash = hash_refresh_token(g.pair.refresh_token)
                => refresh_tokens[i].expires_at =
                       decode_payload(g.pair.refresh_token).exp * TicksPerSec

C26_UploadStoresFile ==
    (resp.op = "upload" /\ resp.status = 200) =>
        LET file == resp.ctx.file
            key == resp.upload.key
            n == Len(file.filename)
        IN  /\ {b.body : b \in {x \in blobs : x.key = key}} = {file.body}
            /\ Cardinality({x \in blobs : x.key = key}) = 1
            /\ Len(key) >= n
            /\ SubSeq(key, Len(key) - n + 1, Len(key)) = file.filename
            /\ resp.upload.filename = file.filename
            /\ resp.upload.status = "uploaded"

\* C26 happens: an upload has succeeded under a key that held other bytes before,
\* or next to an object of another key.
C26_Witness ==
    /\ resp.op = "upload"
    /\ resp.status = 200
    /\ resp.ctx.file.body = "Goodbye"
    /\ Cardinality(blobs) = 2

\* C31: the guard does not look at the ledger: an access token whose refresh token
\* (the one issued in the same pair) has a revoked record, by a logout or by a
\* rotation, still authenticates the Identity of its sub as long as its own exp
\* has not passed.
C31_AccessOutlivesRefresh ==
    (/\ resp.op = "me"
     /\ resp.ctx.pair_revoked
     /\ resp.ctx.signed
     /\ resp.ctx.type = "access"
     /\ resp.ctx.unexpired)
        => /\ resp.status = 200
           /\ resp.user # NoUser
           /\ resp.user.id = resp.ctx.sub

\* C31 happens: the guard has answered an unexpired access token after a logout
\* revoked the refresh token of its pair.
C31_Witness ==
    /\ resp.op = "me"
    /\ resp.ctx.pair_revoked
    /\ resp.ctx.type = "access"
    /\ resp.ctx.unexpired
    /\ logged_out # {}

\* C32: a signed, unexpired access token whose sub names no stored Identity (the
\* Identity was removed after the token was issued) is rejected with 401, and a
\* guard response that carries an Identity carries the one whose id is the
\* token's sub.
C32_UnknownSubjectRejected ==
    /\ (/\ resp.op = "me"
        /\ resp.ctx.signed
        /\ resp.ctx.unexpired
        /\ resp.ctx.type = "access"
        /\ user_by_id(resp.ctx.sub) = NoUser)
           => /\ resp.status = 401
              /\ resp.user = NoUser
    /\ (resp.op = "me" /\ resp.user # NoUser)
           => /\ resp.user.id = resp.ctx.sub
              /\ resp.user \in users

\* C32 happens: the guard has answered an unexpired access token of a removed
\* Identity while another Identity is stored.
C32_Witness ==
    /\ resp.op = "me"
    /\ resp.ctx.signed
    /\ resp.ctx.unexpired
    /\ resp.ctx.type = "access"
    /\ user_by_id(resp.ctx.sub) = NoUser
    /\ users # {}

C34_OneLiveRecordPerLineage ==
    /\ \A i, j \in 1..Len(refresh_tokens) :
           (/\ Root(i) = Root(j)
            /\ ~refresh_tokens[i].revoked
            /\ ~refresh_tokens[j].revoked)
               => i = j
    /\ \A l1, l2 \in lineage : l1[1] = l2[1] => l1[2] = l2[2]

\* C35: once a logout has committed revoked = TRUE on the record of T, no rotation
\* of T inserts a successor record or returns a token pair.
C35_NoSuccessorAfterLogout ==
    [][\A w \in Workers :
          (/\ pc[w] = "refresh_insert"
           /\ pc'[w] = "idle"
           /\ loc[w].token \in logged_out)
              => /\ lineage' = lineage
                 /\ Len(refresh_tokens') = Len(refresh_tokens)
                 /\ resp'.pair = NoPair]_vars

\* C36: the writing steps of a rotation of T and of a logout of T touch one
\* existing record, the one whose token_hash is the hash of T, and only its
\* revoked flag, which they set; every other record, of the same Identity or of
\* another, and every Identity is as before (a rotation also appends its new
\* record).
C36_OnlyOwnRecordTouched ==
    [][\A w \in Workers :
          (/\ pc[w] \in {"refresh_revoke", "refresh_insert", "logout_revoke"}
           /\ pc'[w] # pc[w]
           /\ (pc'[w] = "idle" => resp' # NoResp))
              => /\ users' = users
                 /\ Len(refresh_tokens') >= Len(refresh_tokens)
                 /\ refresh_tokens[loc[w].id].token_hash = hash_refresh_token(loc[w].token)
                 /\ \A i \in 1..Len(refresh_tokens) :
                        IF i = loc[w].id
                        THEN /\ [refresh_tokens'[i] EXCEPT !.revoked = FALSE]
                                    = [refresh_tokens[i] EXCEPT !.revoked = FALSE]
                             /\ (pc[w] # "refresh_insert" => refresh_tokens'[i].revoked)
                             /\ (pc[w] = "refresh_insert"
                                    => refresh_tokens'[i].revoked = refresh_tokens[i].revoked)
                        ELSE refresh_tokens'[i] = refresh_tokens[i]]_vars

\* C36 happens: a logout has revoked one of two live records of an Identity while
\* another Identity has a live record too, and the two others are still live.
C36_Witness ==
    /\ resp.op = "logout"
    /\ resp.ctx.recorded
    /\ ~resp.ctx.revoked
    /\ \E i, j, k \in 1..Len(refresh_tokens) :
           /\ i # j
           /\ refresh_tokens[i].user_id = refresh_tokens[j].user_id
           /\ refresh_tokens[k].user_id # refresh_tokens[i].user_id
           /\ refresh_tokens[i].revoked
           /\ ~refresh_tokens[j].revoked
           /\ ~refresh_tokens[k].revoked
           /\ \E token \in logged_out : refresh_tokens[i].token_hash = hash_refresh_token(token)

\* C37: a refresh call that validation rejects (the token fails the codec, has the
\* wrong type, has no record, has a revoked record or has expired) writes nothing:
\* the step that answers 401 inserts no record, changes no revoked flag and starts
\* no handler step that could.
C37_RejectedRotateWritesNothing ==
    [][(resp'.op = "refresh" /\ resp'.status = 401)
          => /\ refresh_tokens' = refresh_tokens
             /\ users' = users
             /\ grants' = grants
             /\ lineage' = lineage
             /\ pc' = pc
             /\ resp'.pair = NoPair]_vars

\* C37 happens: a refresh call on a revoked token has been rejected while the
\* ledger holds a live record of the same Identity.
C37_Witness ==
    /\ resp.op = "refresh"
    /\ resp.status = 401
    /\ resp.ctx.revoked
    /\ \E i \in 1..Len(refresh_tokens) :
           /\ refresh_tokens[i].user_id = resp.ctx.sub
           /\ ~refresh_tokens[i].revoked

\* C38: a login rejected for an unknown email or a wrong password leaves the
\* persistent state as it was: no Refresh Record and no Identity is created or
\* changed, and the response carries no token.
C38_RejectedLoginWritesNothing ==
    [][(resp'.op = "login" /\ ~resp'.ctx.valid)
          => /\ resp'.status = 401
             /\ resp'.pair = NoPair
             /\ refresh_tokens' = refresh_tokens
             /\ users' = users
             /\ grants' = grants
             /\ pc' = pc]_vars

\* C38 happens: a login with a wrong password has been rejected for an Identity
\* that exists and has a live session.
C38_Witness ==
    /\ resp.op = "login"
    /\ resp.ctx.existed
    /\ ~resp.ctx.valid
    /\ resp.status = 401
    /\ \E i \in 1..Len(refresh_tokens) :
           refresh_tokens[i].user_id = resp.ctx.sub /\ ~refresh_tokens[i].revoked

\* C39: a login with the correct credentials of an existing Identity succeeds and
\* adds one Refresh Record, whatever the ledger holds and however recent the
\* Identity's earlier logins and rotations are.
C39_ValidLoginSucceeds ==
    [][(resp'.op = "login" /\ resp'.ctx.valid)
          => /\ resp'.status = 200
             /\ resp'.pair # NoPair
             /\ Len(refresh_tokens') = Len(refresh_tokens) + 1]_vars

\* C40: the expires_at of every Refresh Record is not earlier than the instant of
\* the exp claim of its refresh token, so at no instant does decode_token accept
\* a token that the expiry check of the ledger refuses, and no refresh call on a
\* token that decode_token accepted is rejected as expired.
C40_LedgerNotStricter ==
    /\ \A i \in 1..Len(refresh_tokens) :
           \A g \in grants :
               refresh_tokens[i].token_hash = hash_refresh_token(g.pair.refresh_token)
                   => /\ refresh_tokens[i].expires_at >=
                             decode_payload(g.pair.refresh_token).exp * TicksPerSec
                      /\ decode_token(g.pair.refresh_token, now) = "ok"
                             => ~(refresh_tokens[i].expires_at < now)
    /\ (resp.op = "refresh" /\ resp.ctx.signed /\ resp.ctx.unexpired)
           => resp.detail # "Refresh token has expired"

\* C40 happens: a refresh call has been accepted for a token whose record expires
\* later than the token's exp claim.
C40_Witness ==
    /\ resp.op = "refresh"
    /\ resp.status = 200
    /\ \E g \in Rotations : \E i \in RecordsOf(g.old) :
           refresh_tokens[i].expires_at > decode_payload(g.old).exp * TicksPerSec

====
